---- MODULE Spec2Model ----
(***************************************************************************)
(* Model of the catalog reconciliation service (compare.py, exl_file.py,   *)
(* Woocommerce.py, app.py).                                                *)
(*                                                                         *)
(* A text is a sequence of one-character strings.  A CSV file is a set of  *)
(* present column names plus its rows of raw field texts; pd.read_csv is   *)
(* modelled with its per-column type inference and its default NA tokens,  *)
(* astype(str)/str() with the text each cell kind prints as.               *)
(***************************************************************************)
EXTENDS Integers, Sequences, FiniteSets, TLC

(* ---------------------------- bounds ---------------------------------- *)
MaxInv == 2
MaxCat == 2
MaxChunk == 2

(* ---------------------------- texts ----------------------------------- *)
Range(s) == {s[i] : i \in 1..Len(s)}

BSeq(S, n) == UNION {[1..k -> S] : k \in 0..n}

IsSpace(c) == c = " "

Lower(c) == CASE c = "A" -> "a" [] c = "N" -> "n" [] OTHER -> c

RECURSIVE LStrip(_)
LStrip(s) == IF s # <<>> /\ IsSpace(Head(s)) THEN LStrip(Tail(s)) ELSE s

RECURSIVE RStrip(_)
RStrip(s) ==
  IF s # <<>> /\ IsSpace(s[Len(s)]) THEN RStrip(SubSeq(s, 1, Len(s) - 1)) ELSE s

Strip(s) == RStrip(LStrip(s))

LowerStr(s) == [i \in 1..Len(s) |-> Lower(s[i])]

\* .str.strip().str.lower() / str(...).strip().lower()
Normalize(s) == LowerStr(Strip(s))

(* ---------------------------- cells ------------------------------------ *)
NaN == [k |-> "nan", v |-> 0, s |-> <<>>]
IntCell(n) == [k |-> "int", v |-> n, s |-> <<>>]
FloatCell(n) == [k |-> "float", v |-> n, s |-> <<>>]
StrCell(t) == [k |-> "str", v |-> 0, s |-> t]

DigitChars == <<"0", "1", "2", "3", "4", "5", "6", "7", "8", "9">>

IsDigit(c) == c \in Range(DigitChars)

DigitVal(c) == (CHOOSE i \in 1..10 : DigitChars[i] = c) - 1

RECURSIVE IntValue(_)
IntValue(s) ==
  IF s = <<>> THEN 0
  ELSE 10 * IntValue(SubSeq(s, 1, Len(s) - 1)) + DigitVal(s[Len(s)])

RECURSIVE Digits(_)
Digits(n) ==
  IF n < 10 THEN <<DigitChars[n + 1]>>
  ELSE Digits(n \div 10) \o <<DigitChars[(n % 10) + 1]>>

\* astype(str) on a column cell, str() on a row value
AsStrNullEmpty(c) ==
  CASE c.k = "nan" -> <<>>
    [] c.k = "int" -> Digits(c.v)
    [] c.k = "float" -> Digits(c.v) \o <<".", "0">>
    [] OTHER -> c.s

AsStr(c) ==
  CASE c.k = "nan" -> <<"n", "a", "n">>
    [] c.k = "int" -> Digits(c.v)
    [] c.k = "float" -> Digits(c.v) \o <<".", "0">>
    [] OTHER -> c.s

(* ---------------------------- read_csv --------------------------------- *)
\* the default NA tokens of read_csv that the model's alphabet can spell
NaTokens == {<<>>, <<"n", "a", "n">>, <<"N", "a", "N">>, <<"N", "A">>}

IsNA(raw) == raw \in NaTokens

IsIntText(raw) == raw # <<>> /\ \A i \in 1..Len(raw) : IsDigit(raw[i])

\* the dtype read_csv infers for one column of the rows it parses together
ColKind(raws) ==
  IF \A i \in 1..Len(raws) : IsNA(raws[i]) \/ IsIntText(raws[i])
  THEN IF \E i \in 1..Len(raws) : IsNA(raws[i]) THEN "float"
       ELSE IF raws = <<>> THEN "object" ELSE "int"
  ELSE "object"

ParseCell(kind, raw) ==
  IF IsNA(raw) THEN NaN
  ELSE CASE kind = "int" -> IntCell(IntValue(raw))
         [] kind = "float" -> FloatCell(IntValue(raw))
         [] OTHER -> StrCell(raw)

ReadColumn(raws) ==
  LET kind == ColKind(raws)
  IN [i \in 1..Len(raws) |-> ParseCell(kind, raws[i])]

\* pd.read_csv of an inventory file: [cols, rows] -> data frame
ReadInv(f) ==
  [cols |-> f.cols, n |-> Len(f.rows), ARTIST_TITLE |-> ReadColumn(f.rows)]

\* pd.read_csv of a catalog file: [cols, rows of [id, name]] -> data frame
ReadCat(f) ==
  LET idRaw == [i \in 1..Len(f.rows) |-> f.rows[i].id]
      nameRaw == [i \in 1..Len(f.rows) |-> f.rows[i].name]
  IN [cols |-> f.cols, n |-> Len(f.rows),
      id |-> ReadColumn(idRaw), name |-> ReadColumn(nameRaw),
      idKind |-> ColKind(idRaw), nameKind |-> ColKind(nameRaw)]

(* ---------------------------- helpers ---------------------------------- *)
\* Python set(...): the distinct elements, kept here in first-occurrence order
RECURSIVE PySetFrom(_, _)
PySetFrom(s, acc) ==
  IF s = <<>> THEN acc
  ELSE PySetFrom(Tail(s), IF Head(s) \in Range(acc) THEN acc ELSE Append(acc, Head(s)))

PySetKeepsAll(s) == s
PySet(s) == PySetFrom(s, <<>>)

\* df.loc[mask, col]: the selected values, each with its row label; the frame's
\* first row has label first
RECURSIVE LocMask(_, _, _, _)
LocMask(col, mask, first, i) ==
  IF i > Len(col) THEN <<>>
  ELSE (IF mask[i] THEN << <<first + i - 1, col[i]>> >> ELSE <<>>)
         \o LocMask(col, mask, first, i + 1)

\* What a comparison call came to: st is "ok" (a list was returned) or "err" (an
\* exception left the function); ids is the returned list, rows the row label
\* of each of its elements, keys the inventory keys names were tested against.
Failed == [st |-> "err", ids |-> <<>>, rows |-> <<>>, keys |-> <<>>]
Returned(hits, keys) ==
  [st |-> "ok", ids |-> [p \in 1..Len(hits) |-> hits[p][2]],
   rows |-> [p \in 1..Len(hits) |-> hits[p][1]], keys |-> keys]
NotRun == [st |-> "none", ids |-> <<>>, rows |-> <<>>, keys |-> <<>>]

(* ---------------------------- compare.py ------------------------------- *)
\* df[col].astype(str).str.strip().str.lower()
CleanColumn(col) == [i \in 1..Len(col) |-> Normalize(AsStr(col[i]))]

\* name not in existing_artist_titles / ~name_clean.isin(keys)
IsUniqueDropsNot(name, keys) == name \in Range(keys)
IsUnique(name, keys) == name \notin Range(keys)

\* iterrows(): each row is one Series, so its values share one dtype
RowKind(df) ==
  LET kinds == {IF c = "id" THEN df.idKind ELSE df.nameKind : c \in df.cols}
  IN IF "object" \in kinds THEN "object"
     ELSE IF "float" \in kinds THEN "float" ELSE "int"

RowValue(df, col, i) ==
  LET c == df[col][i]
  IN IF RowKind(df) = "float" /\ c.k = "int" THEN FloatCell(c.v) ELSE c

RECURSIVE EfficientLoop(_, _, _, _)
EfficientLoop(df2, existing, i, unique_ids) ==
  IF i > df2.n THEN Returned(unique_ids, existing)
  ELSE IF "name" \notin df2.cols THEN Failed
  ELSE IF IsUnique(Normalize(AsStr(RowValue(df2, "name", i))), existing)
       THEN IF "id" \notin df2.cols THEN Failed
            ELSE EfficientLoop(df2, existing, i + 1,
                               Append(unique_ids, <<i, RowValue(df2, "id", i)>>))
       ELSE EfficientLoop(df2, existing, i + 1, unique_ids)

compare_csv_texts_efficient(csv1_path, csv2_path) ==
  LET df1 == ReadInv(csv1_path)
  IN IF "ARTIST_TITLE" \notin df1.cols THEN Failed
     ELSE EfficientLoop(ReadCat(csv2_path),
                        PySet(CleanColumn(df1.ARTIST_TITLE)), 1, <<>>)

compare_csv_texts_vectorized(csv1_path, csv2_path) ==
  LET df1 == ReadInv(csv1_path)
      df2 == ReadCat(csv2_path)
  IN IF "ARTIST_TITLE" \notin df1.cols \/ "name" \notin df2.cols THEN Failed
     ELSE LET artist_title_clean == CleanColumn(df1.ARTIST_TITLE)
              name_clean == CleanColumn(df2.name)
              mask == [i \in 1..df2.n |-> IsUnique(name_clean[i], artist_title_clean)]
          IN IF "id" \notin df2.cols THEN Failed
             ELSE Returned(LocMask(df2.id, mask, 1, 1), artist_title_clean)

\* pd.read_csv(path, chunksize=chunk_size): the rows in batches, each batch
\* parsed on its own; a file with a header and no rows gives one empty batch
Chunks(rows, chunk_size) ==
  IF rows = <<>> THEN << <<>> >>
  ELSE [k \in 1..((Len(rows) + chunk_size - 1) \div chunk_size) |->
          SubSeq(rows, (k - 1) * chunk_size + 1,
                 IF k * chunk_size < Len(rows) THEN k * chunk_size ELSE Len(rows))]

RECURSIVE ChunkedLoop(_, _, _, _, _, _)
ChunkedLoop(chunks, cols, existing, k, first, unique_ids) ==
  IF k > Len(chunks) THEN Returned(unique_ids, existing)
  ELSE IF "name" \notin cols THEN Failed
  ELSE LET chunk == ReadCat([cols |-> cols, rows |-> chunks[k]])
           name_clean == CleanColumn(chunk.name)
           mask == [i \in 1..chunk.n |-> IsUnique(name_clean[i], existing)]
       IN IF "id" \notin cols THEN Failed
          ELSE ChunkedLoop(chunks, cols, existing, k + 1, first + chunk.n,
                           unique_ids \o LocMask(chunk.id, mask, first, 1))

compare_csv_texts_chunked(csv1_path, csv2_path, chunk_size) ==
  LET df1 == ReadInv(csv1_path)
  IN IF "ARTIST_TITLE" \notin df1.cols THEN Failed
     ELSE ChunkedLoop(Chunks(csv2_path.rows, chunk_size), csv2_path.cols,
                      PySet(CleanColumn(df1.ARTIST_TITLE)), 1, 1, <<>>)

(* ---------------------------- inputs ----------------------------------- *)
\* raw field texts of the files the comparison is run on
KeyTexts == {<<"a">>, <<" ", "A">>, <<>>, <<"0", "7">>, <<" ", "N", "a", "N">>}
NameTexts == {<<" ", "A">>, <<"0", "7">>, <<>>}
IdTexts == {<<"1">>, <<"x">>, <<>>}

\* files with the columns the docstring asks for
InvFiles == [cols : {{"ARTIST_TITLE"}}, rows : BSeq(KeyTexts, MaxInv)]

CatFiles ==
  [cols : {{"id", "name"}}, rows : BSeq([id : IdTexts, name : NameTexts], MaxCat)]

\* the same files with a required column left out
InvFilesNoKey == [cols : {{}}, rows : BSeq(KeyTexts, MaxInv)]

CatFilesNoField ==
  [cols : {{"id"}, {"name"}}, rows : BSeq([id : IdTexts, name : NameTexts], MaxCat)]

(* ---------------------------- exl_file.py ------------------------------ *)
Dash == <<" ", "-", " ">>

\* drop_duplicates(subset=["ARTIST_TITLE"]): the first row of each value stays
DropDuplicates(col) == PySetFrom(col, <<>>)

\* the file artist_title_to_csv writes from the downloaded sheet
ArtistTitleCsv(sheet) ==
  [cols |-> {"ARTIST_TITLE"},
   rows |-> DropDuplicates([i \in 1..Len(sheet) |->
                              sheet[i].ARTIST \o Dash \o sheet[i].TITLE])]

(* ---------------------------- Woocommerce.py --------------------------- *)
JInt(n) == [t |-> "int", v |-> n, s |-> <<>>]
JStr(x) == [t |-> "str", v |-> 0, s |-> x]
JNull == [t |-> "null", v |-> 0, s |-> <<>>]

\* name.replace("&amp;", "&"); the entity is one token of a text
ReplaceAmp(x) == [i \in 1..Len(x) |-> IF x[i] = "&amp;" THEN "&" ELSE x[i]]

\* item["name"].replace raises unless the name is a string
ItemRaises(item) == item.name.t # "str"

\* csv.DictWriter writes str(value)
CsvField(j) ==
  CASE j.t = "int" -> Digits(j.v) [] j.t = "str" -> j.s [] OTHER -> <<>>

\* the file save_id_name_to_csv writes from the API's items
IdNameCsv(data) ==
  [cols |-> {"id", "name"},
   rows |-> [i \in 1..Len(data) |->
               [id |-> CsvField(data[i].id), name |-> ReplaceAmp(data[i].name.s)]]]

(* ---------------------------- app.py ----------------------------------- *)
\* if isinstance(excel_result, dict): raise HTTPException
RaisesAfterExcelNever(excel_result) == FALSE
RaisesAfterExcel(excel_result) == excel_result.kind = "dict"

\* if not isinstance(woo_result, dict) or woo_result.get("Status") != 200: raise
RaisesAfterWooNever(woo_result) == FALSE
RaisesAfterWoo(woo_result) == woo_result.kind # "dict" \/ woo_result.Status # 200

\* unique_ids: Optional[List[int]]: whole numbers pass, as integers
Validates(ids) == \A i \in 1..Len(ids) : ids[i].k \in {"int", "float"}

NoResponse == [kind |-> "none", status |-> 0, unique_ids |-> <<>>, unique_count |-> 0,
               detail |-> ""]
ErrorResponse(detail) ==
  [kind |-> "error", status |-> 500, unique_ids |-> <<>>, unique_count |-> 0,
   detail |-> detail]

\* ProcessResponse(status=200, ..., unique_ids=comparison_result, ...), inside
\* the handler's try: a validation error becomes the Internal server error
ProcessResponse(comparison_result) ==
  IF Validates(comparison_result)
  THEN [kind |-> "ok", status |-> 200,
        unique_ids |-> [i \in 1..Len(comparison_result) |->
                          IntCell(comparison_result[i].v)],
        unique_count |-> Len(comparison_result), detail |-> ""]
  ELSE ErrorResponse("Internal server error")

(* ---------------------------- upstream data ---------------------------- *)
NRuns == 2

Runs == 1..NRuns

SheetRow(a, t) == [ARTIST |-> a, TITLE |-> t]

\* sheets the inventory URL can serve
Sheets ==
  {<<>>, <<SheetRow(<<"a">>, <<"b">>), SheetRow(<<"A">>, <<"b">>),
           SheetRow(<<"a">>, <<"b">>)>>}

Item(id, name) == [id |-> id, name |-> name]

\* item lists the catalog URL can serve
ItemLists ==
  {<<Item(JInt(1), JStr(<<"A", " ", "-", " ", "b">>)),
     Item(JInt(2), JStr(<<"c", "&amp;">>))>>,
   <<Item(JStr(<<"x">>), JStr(<<"c">>))>>,
   <<Item(JInt(1), JNull)>>}

NoFile == [st |-> "absent", cols |-> {}, rows |-> <<>>]
Truncated == [st |-> "empty", cols |-> {}, rows |-> <<>>]
Written(f) == [st |-> "full", cols |-> f.cols, rows |-> f.rows]

NoData == [cols |-> {}, rows |-> <<>>]
\* what a collaborator returned: a path, or a dict with its Status
NoResult == [kind |-> "none", Status |-> 0]
PathResult == [kind |-> "path", Status |-> 0]
DictResult(status) == [kind |-> "dict", Status |-> status]

(* ---------------------------- state ------------------------------------ *)
VARIABLES csv1_file, csv2_file, unique_ids_1, unique_ids_2, unique_ids_3,
          chunk_size_3, method

\* upload/Xls<ddmmyy>.csv and upload/Woo<ddmmyy>.csv, one pair per day
VARIABLES xlsFile, wooFile

\* per /process run: where it is, the collaborators' return values, the data
\* about to be written, the inventory frame the comparator has read, the response
VARIABLES pc, excel_result, woo_result, pending, df1, response

\* history: the order of the calls a run made, the steps of it that failed, and
\* the files its own downloads amount to
VARIABLES calls, failed, own

cmpVars == <<csv1_file, csv2_file, unique_ids_1, unique_ids_2, unique_ids_3,
             chunk_size_3, method>>

pipeVars == <<xlsFile, wooFile, pc, excel_result, woo_result, pending, df1,
              response, calls, failed, own>>

vars == <<cmpVars, pipeVars>>

PipeIdle ==
  /\ xlsFile = NoFile
  /\ wooFile = NoFile
  /\ pc = [r \in Runs |-> "start"]
  /\ excel_result = [r \in Runs |-> NoResult]
  /\ woo_result = [r \in Runs |-> NoResult]
  /\ pending = [r \in Runs |-> NoData]
  /\ df1 = [r \in Runs |-> NoFile]
  /\ response = [r \in Runs |-> NoResponse]
  /\ calls = [r \in Runs |-> <<>>]
  /\ failed = [r \in Runs |-> {}]
  /\ own = [r \in Runs |-> [inv |-> NoData, cat |-> NoData]]

CmpIdle ==
  /\ csv1_file = NoData
  /\ csv2_file = NoData
  /\ unique_ids_1 = NotRun
  /\ unique_ids_2 = NotRun
  /\ unique_ids_3 = NotRun
  /\ chunk_size_3 = 0
  /\ method = 0

(* ------------------- the three methods on the same files --------------- *)
NoneRun ==
  /\ unique_ids_1 = NotRun
  /\ unique_ids_2 = NotRun
  /\ unique_ids_3 = NotRun
  /\ chunk_size_3 = 0
  /\ method = 1

InitCmp ==
  /\ csv1_file \in InvFiles
  /\ csv2_file \in CatFiles
  /\ NoneRun
  /\ PipeIdle

\* one of the two files lacks a required column
InitMalformed ==
  /\ \/ csv1_file \in InvFilesNoKey /\ csv2_file \in CatFiles
     \/ csv1_file \in InvFiles /\ csv2_file \in CatFilesNoField
  /\ NoneRun
  /\ PipeIdle

Method1 ==
  /\ method = 1
  /\ unique_ids_1' = compare_csv_texts_efficient(csv1_file, csv2_file)
  /\ method' = 2
  /\ UNCHANGED <<csv1_file, csv2_file, unique_ids_2, unique_ids_3, chunk_size_3>>
  /\ UNCHANGED pipeVars

Method2 ==
  /\ method = 2
  /\ unique_ids_2' = compare_csv_texts_vectorized(csv1_file, csv2_file)
  /\ method' = 3
  /\ UNCHANGED <<csv1_file, csv2_file, unique_ids_1, unique_ids_3, chunk_size_3>>
  /\ UNCHANGED pipeVars

Method3 ==
  /\ method = 3
  /\ \E chunk_size \in 1..MaxChunk :
       /\ chunk_size_3' = chunk_size
       /\ unique_ids_3' = compare_csv_texts_chunked(csv1_file, csv2_file, chunk_size)
  /\ method' = 4
  /\ UNCHANGED <<csv1_file, csv2_file, unique_ids_1, unique_ids_2>>
  /\ UNCHANGED pipeVars

NextCmp == Method1 \/ Method2 \/ Method3

SpecCmp == InitCmp /\ [][NextCmp]_vars

SpecMalformed == InitMalformed /\ [][NextCmp]_vars

(* ---------------------------- /process --------------------------------- *)
InitPipe == CmpIdle /\ PipeIdle

\* the handler ends by raising HTTPException(500, detail)
Raise(r, step, detail) ==
  /\ pc' = [pc EXCEPT ![r] = "done"]
  /\ response' = [response EXCEPT ![r] = ErrorResponse(detail)]
  /\ failed' = [failed EXCEPT ![r] = @ \cup {step}]

\* artist_title_to_csv: download and build the frame; an exception anywhere in
\* it returns the Status 500 dict
ExcelFail(r) ==
  /\ pc[r] = "start"
  /\ calls' = [calls EXCEPT ![r] = Append(@, "inventory")]
  /\ LET res == DictResult(500)
     IN /\ excel_result' = [excel_result EXCEPT ![r] = res]
        /\ IF RaisesAfterExcel(res)
           THEN Raise(r, "inventory", "Excel CSV generation failed")
           ELSE /\ pc' = [pc EXCEPT ![r] = "woo"]
                /\ failed' = [failed EXCEPT ![r] = @ \cup {"inventory"}]
                /\ UNCHANGED response
  /\ UNCHANGED <<xlsFile, wooFile, woo_result, pending, df1, own>>
  /\ UNCHANGED cmpVars

ExcelFetch(r) ==
  /\ pc[r] = "start"
  /\ calls' = [calls EXCEPT ![r] = Append(@, "inventory")]
  /\ \E sheet \in Sheets :
       /\ pending' = [pending EXCEPT ![r] = ArtistTitleCsv(sheet)]
       /\ own' = [own EXCEPT ![r].inv = ArtistTitleCsv(sheet)]
  /\ pc' = [pc EXCEPT ![r] = "xls_open"]
  /\ UNCHANGED <<xlsFile, wooFile, excel_result, woo_result, df1, response, failed>>
  /\ UNCHANGED cmpVars

\* to_csv opens the day's file for writing, which empties it
XlsOpen(r) ==
  /\ pc[r] = "xls_open"
  /\ xlsFile' = Truncated
  /\ pc' = [pc EXCEPT ![r] = "xls_write"]
  /\ UNCHANGED <<wooFile, excel_result, woo_result, pending, df1, response,
                 calls, failed, own>>
  /\ UNCHANGED cmpVars

\* to_csv writes and closes; artist_title_to_csv returns the path
XlsWrite(r) ==
  /\ pc[r] = "xls_write"
  /\ xlsFile' = Written(pending[r])
  /\ pending' = [pending EXCEPT ![r] = NoData]
  /\ LET res == PathResult
     IN /\ excel_result' = [excel_result EXCEPT ![r] = res]
        /\ IF RaisesAfterExcel(res)
           THEN Raise(r, "inventory", "Excel CSV generation failed")
           ELSE /\ pc' = [pc EXCEPT ![r] = "woo"]
                /\ UNCHANGED <<response, failed>>
  /\ UNCHANGED <<wooFile, woo_result, df1, calls, own>>
  /\ UNCHANGED cmpVars

\* save_id_name_to_csv returns the Status 500 dict: the request failed, or
\* (data) an item of the answer has no usable name
WooReturns500(r) ==
  /\ calls' = [calls EXCEPT ![r] = Append(@, "catalog")]
  /\ LET res == DictResult(500)
     IN /\ woo_result' = [woo_result EXCEPT ![r] = res]
        /\ IF RaisesAfterWoo(res)
           THEN Raise(r, "catalog", "WooCommerce CSV generation failed")
           ELSE /\ pc' = [pc EXCEPT ![r] = "read1"]
                /\ failed' = [failed EXCEPT ![r] = @ \cup {"catalog"}]
                /\ UNCHANGED response
  /\ UNCHANGED <<xlsFile, wooFile, excel_result, pending, df1, own>>
  /\ UNCHANGED cmpVars

WooFail(r) ==
  /\ pc[r] = "woo"
  /\ WooReturns500(r)

WooBadItem(r) ==
  /\ pc[r] = "woo"
  /\ \E data \in ItemLists : \E i \in 1..Len(data) : ItemRaises(data[i])
  /\ WooReturns500(r)

WooFetch(r) ==
  /\ pc[r] = "woo"
  /\ calls' = [calls EXCEPT ![r] = Append(@, "catalog")]
  /\ \E data \in ItemLists :
       /\ \A i \in 1..Len(data) : ~ItemRaises(data[i])
       /\ pending' = [pending EXCEPT ![r] = IdNameCsv(data)]
       /\ own' = [own EXCEPT ![r].cat = IdNameCsv(data)]
  /\ pc' = [pc EXCEPT ![r] = "woo_open"]
  /\ UNCHANGED <<xlsFile, wooFile, excel_result, woo_result, df1, response, failed>>
  /\ UNCHANGED cmpVars

\* open(output_file, mode="w") empties the day's file
WooOpen(r) ==
  /\ pc[r] = "woo_open"
  /\ wooFile' = Truncated
  /\ pc' = [pc EXCEPT ![r] = "woo_write"]
  /\ UNCHANGED <<xlsFile, excel_result, woo_result, pending, df1, response,
                 calls, failed, own>>
  /\ UNCHANGED cmpVars

\* the rows are written, the file closed, Status 200 returned
WooWrite(r) ==
  /\ pc[r] = "woo_write"
  /\ wooFile' = Written(pending[r])
  /\ pending' = [pending EXCEPT ![r] = NoData]
  /\ LET res == DictResult(200)
     IN /\ woo_result' = [woo_result EXCEPT ![r] = res]
        /\ IF RaisesAfterWoo(res)
           THEN Raise(r, "catalog", "WooCommerce CSV generation failed")
           ELSE /\ pc' = [pc EXCEPT ![r] = "read1"]
                /\ UNCHANGED <<response, failed>>
  /\ UNCHANGED <<xlsFile, excel_result, df1, calls, own>>
  /\ UNCHANGED cmpVars

\* compare_csv_texts_vectorized: df1 = pd.read_csv(csv1_path); a file with no
\* header line raises
CmpRead1(r) ==
  /\ pc[r] = "read1"
  /\ calls' = [calls EXCEPT ![r] = Append(@, "comparator")]
  /\ IF xlsFile.st # "full"
     THEN /\ Raise(r, "comparator", "Internal server error")
          /\ UNCHANGED df1
     ELSE /\ df1' = [df1 EXCEPT ![r] = xlsFile]
          /\ pc' = [pc EXCEPT ![r] = "read2"]
          /\ UNCHANGED <<response, failed>>
  /\ UNCHANGED <<xlsFile, wooFile, excel_result, woo_result, pending, own>>
  /\ UNCHANGED cmpVars

\* df2 = pd.read_csv(csv2_path), the comparison, and the response
CmpRead2(r) ==
  /\ pc[r] = "read2"
  /\ df1' = [df1 EXCEPT ![r] = NoFile]
  /\ IF wooFile.st # "full"
     THEN Raise(r, "comparator", "Internal server error")
     ELSE LET comparison_result ==
                compare_csv_texts_vectorized(
                  [cols |-> df1[r].cols, rows |-> df1[r].rows],
                  [cols |-> wooFile.cols, rows |-> wooFile.rows])
          IN IF comparison_result.st = "err"
             THEN Raise(r, "comparator", "Internal server error")
             ELSE /\ pc' = [pc EXCEPT ![r] = "done"]
                  /\ response' = [response EXCEPT ![r] =
                                    ProcessResponse(comparison_result.ids)]
                  /\ failed' = [failed EXCEPT ![r] =
                                  IF Validates(comparison_result.ids) THEN @
                                  ELSE @ \cup {"envelope"}]
  /\ UNCHANGED <<xlsFile, wooFile, excel_result, woo_result, pending, calls, own>>
  /\ UNCHANGED cmpVars

NextPipe ==
  \E r \in Runs :
    \/ ExcelFail(r) \/ ExcelFetch(r) \/ XlsOpen(r) \/ XlsWrite(r)
    \/ WooFail(r) \/ WooBadItem(r) \/ WooFetch(r) \/ WooOpen(r) \/ WooWrite(r)
    \/ CmpRead1(r) \/ CmpRead2(r)

SpecPipe == InitPipe /\ [][NextPipe]_vars


(* ======================= properties: the comparison ==================== *)
AllColumns ==
  csv1_file.cols = {"ARTIST_TITLE"} /\ csv2_file.cols = {"id", "name"}

\* the values of the two files, each file read whole
InvFrame == ReadInv(csv1_file)
CatFrame == ReadCat(csv2_file)

\* the text of every key and of every name, as str() prints the value
KeyStrings == [j \in 1..InvFrame.n |-> AsStr(InvFrame.ARTIST_TITLE[j])]
NameStrings == [i \in 1..CatFrame.n |-> AsStr(CatFrame.name[i])]

SameKey(x, y) == LowerStr(Strip(x)) = LowerStr(Strip(y))

\* catalog rows whose name equals no inventory key up to case and outer blanks
AbsentRows ==
  LET keys == KeyStrings
      names == NameStrings
  IN {i \in 1..Len(names) : \A j \in 1..Len(keys) : ~SameKey(names[i], keys[j])}

Ascending(seq) == \A a, b \in 1..Len(seq) : a < b => seq[a] < seq[b]

NoDuplicates(seq) == \A a, b \in 1..Len(seq) : seq[a] = seq[b] => a = b

\* the calls made so far, each with its result
Ran == {unique_ids_1, unique_ids_2, unique_ids_3} \ {NotRun}

C2_StrategiesAgree ==
  (method = 4 /\ AllColumns) =>
    /\ unique_ids_1.st = "ok" /\ unique_ids_2.st = "ok" /\ unique_ids_3.st = "ok"
    /\ unique_ids_1.rows = unique_ids_2.rows
    /\ unique_ids_2.rows = unique_ids_3.rows

(* C5: with a required column absent from a file (ARTIST_TITLE, id or name),   *)
(* every strategy fails, whatever the rows are.                                *)
C5_MissingColumnFails ==
  ~AllColumns => \A res \in Ran : res.st = "err"

\* what does hold: the vectorized and the chunked strategy always fail then
MissingColumnFailsBulk ==
  ~AllColumns => \A res \in {unique_ids_2, unique_ids_3} \ {NotRun} : res.st = "err"

(* C6: a catalog row whose name equals an inventory key up to letter case and  *)
(* leading/trailing blanks is in no strategy's result, at any row position.    *)
C6_EqualTextsNeverEmitted ==
  AllColumns =>
    LET key == InvFrame.ARTIST_TITLE
        name == CatFrame.name
    IN \A res \in Ran : \A i \in 1..Len(name) :
         (/\ name[i].k = "str"
          /\ \E j \in 1..Len(key) : key[j].k = "str" /\ SameKey(name[i].s, key[j].s))
           => i \notin Range(res.rows)

\* the inventory holds a missing key, or a text that reads as the placeholder
HasPlaceholderKey ==
  \E j \in 1..Len(csv1_file.rows) :
    \/ IsNA(csv1_file.rows[j])
    \/ LowerStr(Strip(csv1_file.rows[j])) = <<"n", "a", "n">>

(* C7: a missing key or name never fails a comparison; a catalog row with a    *)
(* missing name is left out exactly when the inventory holds a missing key or  *)
(* a key that normalizes to the placeholder text.                              *)
C7_MissingValuesUsePlaceholder ==
  AllColumns =>
    LET placeholder == HasPlaceholderKey
    IN \A res \in Ran :
         /\ res.st = "ok"
         /\ \A i \in 1..Len(csv2_file.rows) :
              IsNA(csv2_file.rows[i].name) =>
                (i \in Range(res.rows) <=> ~placeholder)

\* all three strategies left out a row with a missing name because of a key
\* that is a text, not a missing value
C7_Witness ==
  /\ method = 4 /\ AllColumns
  /\ \E i \in 1..Len(csv2_file.rows) :
       /\ IsNA(csv2_file.rows[i].name)
       /\ \A res \in Ran : i \notin Range(res.rows)
  /\ \A j \in 1..Len(csv1_file.rows) : ~IsNA(csv1_file.rows[j])

(* C10 as stated: in every strategy the normalized inventory keys that names   *)
(* are tested against hold no key twice.                                       *)
C10_KeysNeverRepeat ==
  \A res \in Ran : NoDuplicates(res.keys)

(* C10: the row-wise and the chunked strategy test against keys without        *)
(* repetition; the vectorized strategy tests against the normalized column,    *)
(* one entry per inventory row, whose distinct values are those same keys.     *)
C10_SetStrategiesDropDuplicates ==
  /\ NoDuplicates(unique_ids_1.keys)
  /\ NoDuplicates(unique_ids_3.keys)
  /\ (method > 2 /\ AllColumns) =>
       /\ Len(unique_ids_2.keys) = Len(csv1_file.rows)
       /\ Range(unique_ids_2.keys) = Range(unique_ids_1.keys)

\* two inventory rows that normalize to one key
C10_Witness ==
  /\ method = 4 /\ AllColumns
  /\ Len(unique_ids_2.keys) = 2
  /\ Len(unique_ids_1.keys) = 1 /\ Len(unique_ids_3.keys) = 1


(* ======================= properties: /process ========================== *)
Steps == <<"inventory", "catalog", "comparator">>

IsPrefix(a, b) == Len(a) <= Len(b) /\ \A i \in 1..Len(a) : a[i] = b[i]

\* what a run answers when its comparator reads the files of its own downloads
OwnAnswer(r) ==
  ProcessResponse(compare_csv_texts_vectorized(own[r].inv, own[r].cat).ids)

(* C3: runs that overlap share nothing: a run whose two collaborators          *)
(* succeeded answers with the comparison of the data it downloaded itself.     *)
C3_RunsUseOwnData ==
  \A r \in Runs :
    (pc[r] = "done" /\ failed[r] \cap {"inventory", "catalog"} = {})
      => response[r] = OwnAnswer(r)

(* C4: a finished run has exactly one outcome, the success envelope or one     *)
(* error with its cause text; after a failure of any step it is the error,     *)
(* which carries no ids; success is given only when every step succeeded.      *)
C4_SingleOutcome ==
  \A r \in Runs :
    /\ pc[r] # "done" => response[r] = NoResponse
    /\ pc[r] = "done" =>
         /\ response[r].kind \in {"ok", "error"}
         /\ failed[r] # {} => response[r].kind = "error"
         /\ response[r].kind = "error" =>
              /\ response[r].unique_ids = <<>>
              /\ response[r].detail # ""
              /\ failed[r] # {}
         /\ response[r].kind = "ok" =>
              /\ calls[r] = Steps
              /\ response[r].status = 200
              /\ response[r].unique_count = Len(response[r].unique_ids)

\* a run whose comparison succeeded and whose envelope could not be built
C4_Witness ==
  \E r \in Runs :
    pc[r] = "done" /\ failed[r] = {"envelope"} /\ response[r].kind = "error"

(* C8: identifiers reach the envelope as they are, integers or strings: a run  *)
(* whose collaborators and comparator succeeded answers with the success       *)
(* envelope, also when the catalog's identifiers are not numbers.              *)
C8_IdentifiersVerbatim ==
  \A r \in Runs :
    (pc[r] = "done" /\ calls[r] = Steps /\ "comparator" \notin failed[r])
      => response[r].kind = "ok"

(* C9: a run calls the inventory collaborator, the catalog collaborator and    *)
(* the comparator in this order, each at most once; the catalog collaborator   *)
(* only after a path came back, the comparator only after Status 200; after a  *)
(* collaborator's failure nothing more is called and the run ends in error.    *)
C9_StepOrder ==
  \A r \in Runs :
    /\ IsPrefix(calls[r], Steps)
    /\ Len(calls[r]) >= 2 => excel_result[r].kind = "path"
    /\ Len(calls[r]) = 3 => woo_result[r] = DictResult(200)
    /\ "inventory" \in failed[r] =>
         calls[r] = <<"inventory">> /\ pc[r] = "done" /\ response[r].kind = "error"
    /\ "catalog" \in failed[r] =>
         /\ calls[r] = <<"inventory", "catalog">>
         /\ pc[r] = "done" /\ response[r].kind = "error"

\* the catalog collaborator failed after the inventory collaborator succeeded
C9_Witness ==
  \E r \in Runs :
    /\ "catalog" \in failed[r]
    /\ calls[r] = <<"inventory", "catalog">>
    /\ \E q \in Runs : calls[q] = Steps /\ pc[q] = "done"

====
